---- MODULE Spec2Model ----
(***************************************************************************)
(* Rainbow tables (Isavb03/rainbow-tables): chain construction and         *)
(* collision search.                                                       *)
(*                                                                         *)
(* The key space and the digest width are scaled down so that the state    *)
(* space is finite and small, keeping the relations of the source:         *)
(*   HASH_LEN = TRUNC_LEN * ChunkBits      (40 = 8 * 5 in config.py)       *)
(*   PSW_LEN < TRUNC_LEN                   (5 < 8: the top chunks are cut) *)
(*   ALPHABET_SIZE < 2^ChunkBits, no divisor of it (26 < 32: chunk % 26    *)
(*                                          wraps the top chunk values)    *)
(* A password is a sequence of PSW_LEN letters of ALPHABET; a digest is the  *)
(* integer int.from_bytes(digest, 'big').                                  *)
(* SHA-256 is an arbitrary fixed function of the password: the variable    *)
(* sha holds one function of the family HashFns, chosen in Init.           *)
(***************************************************************************)
EXTENDS Integers, Sequences, FiniteSets, TLC

\* ---------------------------------------------------------------- bounds
MaxT == 3          \* chain lengths 1..MaxT
MaxN == 2          \* table sizes 0..MaxN
NumHashes == 2     \* members of the hash family
AttemptCap == 4    \* attempts of code_chati build_table followed (its counter is unbounded)
KeyMargin == 2     \* indices tried below 0 and above SPACE_SIZE - 1
MaxTimeout == 1    \* largest timeout given to RainbowTable.search_collision, in clock ticks
MaxTick == 1       \* most clock ticks that pass between two readings of time.time()
MaxPosition == 4   \* positions 0..MaxPosition given to reduction_function on its own

\* ------------------------------------------------ program constants (scaled)
ALPHABET == <<"a", "b", "c">>
ALPHABET_SIZE == Len(ALPHABET)
PSW_LEN == 2
TRUNC_LEN == 3
ChunkBits == 2
HASH_LEN == 6
AttemptFactor == 10
IterationStride == 7

RECURSIVE Pow(_, _)
Pow(b, e) == IF e = 0 THEN 1 ELSE b * Pow(b, e - 1)

SPACE_SIZE == Pow(ALPHABET_SIZE, PSW_LEN)
HashMod == Pow(2, HASH_LEN)
ChunkMod == Pow(2, ChunkBits)

Letter == { ALPHABET[i] : i \in 1 .. ALPHABET_SIZE }

\* ALPHABET.index(c), counted from 0 as in the source
ALPHABET_index(c) == (CHOOSE i \in 1 .. ALPHABET_SIZE : ALPHABET[i] = c) - 1
Password == [1 .. PSW_LEN -> Letter]
Digest == 0 .. (HashMod - 1)
None == <<"None">>

\* ------------------------------------------------------------- key space
\* code_chati/build_table.py: base-ALPHABET_SIZE digits, most significant first
RECURSIVE pw_to_index_loop(_, _, _)
pw_to_index_loop(pw, k, idx) ==
    IF k > Len(pw) THEN idx
    ELSE pw_to_index_loop(pw, k + 1, idx * ALPHABET_SIZE + ALPHABET_index(pw[k]))

pw_to_index(pw) == pw_to_index_loop(pw, 1, 0)

\* "idx, r = divmod(idx, 26); chars.append(ALPHABET[r])", PSW_LEN times
RECURSIVE index_to_pw_loop(_, _, _)
index_to_pw_loop(idx, k, chars) ==
    IF k >= PSW_LEN THEN chars
    ELSE index_to_pw_loop(idx \div ALPHABET_SIZE, k + 1,
                          Append(chars, ALPHABET[(idx % ALPHABET_SIZE) + 1]))

\* the characters joined without reversed()
not_reversed(chars) == chars

reversed(chars) == [k \in 1 .. Len(chars) |-> chars[Len(chars) + 1 - k]]

index_to_pw(idx) == reversed(index_to_pw_loop(idx, 0, <<>>))

\* ------------------------------------------------------------------ hash
\* The hash family: member s maps the password of index x to Mix(x, s).
Mix(x, s) == ((x + 1) * (x + 3 + 2 * s) * 7 + 11 * s) % HashMod

HashFns == { [p \in Password |-> Mix(pw_to_index(p), s)] : s \in 0 .. (NumHashes - 1) }

VARIABLES
    sha,            \* the truncated SHA-256, one member of HashFns
    pc,             \* "start" | "building" | "returned" | "table" | "searched",
                    \* "chain" | "chain_done" for a direct call of build_chain
    chain_length,   \* t of build_rainbow_table
    num_entries,    \* n of build_rainbow_table
    tabla,          \* dict final_hash -> initial password
    attempts,       \* local of build_rainbow_table
    bcalls,         \* reductions made by build_chain so far: {<<link, position>>}
    chain_start,    \* argument of a direct call of build_chain (None if none)
    chain_t,        \* chain_length argument of that call
    chain_out,      \* its result (None before it returns)
    p0,             \* target digest of the last search_collision (None before)
    search_t,       \* chain_length argument of the last search_collision
    found,          \* trace of the last search_collision (None before)
    key_idx,        \* argument of a direct call of index_to_pw (None if none)
    key_pw,         \* argument of a direct call of pw_to_index (None if none)
    key_out,        \* what the two calls returned, and the calls on their results
    seed,           \* the seed argument of code_chati build_table: {} for None, {s} for s
    run,            \* which run of build_table with these arguments this is
    first_table,    \* the table the first run returned (None before)
    rt_timeout,     \* the timeout argument of RainbowTable.search_collision
    rt_ret,         \* the tuple it returned and the return statement that made it
    rt_first,       \* the same of the caller's previous search (None if none)
    csvfile,        \* the rows of the file save_rainbow_table wrote (<<>> if none)
    loaded,         \* what load_rainbow_table returned (None before)
    verbose,        \* the verbose argument of build_rainbow_table
    debug,          \* self.debug of the RainbowTable of mainclaudedebug.py
    red_hash,       \* digest given to a direct call of reduction_function (None if none)
    red_pos,        \* position of that call
    red_pos2,       \* position of a second call on the same digest
    red_out,        \* the passwords the calls returned (None before)
    pending,        \* per construction worker: {} or {the chain it generated}
    first_start     \* per endpoint: the start of the first insert of that key

vars == <<sha, pc, chain_length, num_entries, tabla, attempts, bcalls,
          chain_start, chain_t, chain_out, p0, search_t, found,
          key_idx, key_pw, key_out, seed, run, first_table,
          rt_timeout, rt_ret, rt_first, csvfile, loaded, verbose,
          debug, red_hash, red_pos, red_pos2, red_out, pending, first_start>>

buildVars == <<chain_length, num_entries, tabla, attempts, bcalls>>
chainVars == <<chain_start, chain_t, chain_out>>
searchVars == <<p0, search_t, found>>
keyVars == <<key_idx, key_pw, key_out>>
seedVars == <<seed, run, first_table>>
rtVars == <<rt_timeout, rt_ret, rt_first>>
fileVars == <<csvfile, loaded>>
redVars == <<red_hash, red_pos, red_pos2, red_out>>
workerVars == <<pending, first_start>>

hash_function(password) == sha[password]

\* ------------------------------------------------------------- reduction
\* config.py / const_tabla.py / find_pas.py: bit chunks of the digest plus position
Chunk(hash_int, i) == (hash_int \div Pow(ChunkMod, i)) % ChunkMod

reduction_chars(hash_int) ==
    [i \in 1 .. TRUNC_LEN |-> ALPHABET[(Chunk(hash_int, i - 1) % ALPHABET_SIZE) + 1]]

\* the characters of all the chunks joined, without "[:PSW_LEN]"
reduction_function_untruncated(hash_bytes, iteration) ==
    reduction_chars((hash_bytes + iteration) % HashMod)

reduction_function(hash_bytes, iteration) ==
    LET hash_int == (hash_bytes + iteration) % HashMod
    IN  SubSeq(reduction_chars(hash_int), 1, PSW_LEN)

\* ----------------------------------------------------------- build_chain
\* The loop of build_chain from iteration j with current password P; link counts
\* the links already applied from the start password.
\* the loop written "for j in range(1, chain_length)"
RECURSIVE build_chain_loop_from1(_, _, _, _, _)
build_chain_loop_from1(P, j, link, chain_length_, calls) ==
    IF j >= chain_length_ - 1 THEN [P |-> P, calls |-> calls]
    ELSE build_chain_loop_from1(reduction_function(hash_function(P), j + 1), j + 1,
                                link + 1, chain_length_, calls \cup {<<link, j + 1>>})

\* the loop written "for j in range(chain_length)"
RECURSIVE build_chain_loop_full(_, _, _, _, _)
build_chain_loop_full(P, j, link, chain_length_, calls) ==
    IF j >= chain_length_ THEN [P |-> P, calls |-> calls]
    ELSE build_chain_loop_full(reduction_function(hash_function(P), j), j + 1, link + 1,
                               chain_length_, calls \cup {<<link, j>>})

RECURSIVE build_chain_loop(_, _, _, _, _)
build_chain_loop(P, j, link, chain_length_, calls) ==
    IF j >= chain_length_ - 1 THEN [P |-> P, calls |-> calls]
    ELSE build_chain_loop(reduction_function(hash_function(P), j), j + 1, link + 1,
                          chain_length_, calls \cup {<<link, j>>})

\* build_chain returning the last password of the chain as its start
build_chain_last_psw(initial_password, chain_length_) ==
    LET end == build_chain_loop(initial_password, 0, 0, chain_length_, {})
    IN  [initial_psw |-> end.P,
         final_hash |-> hash_function(end.P),
         calls |-> end.calls]

build_chain(initial_password, chain_length_) ==
    LET end == build_chain_loop(initial_password, 0, 0, chain_length_, {})
    IN  [initial_psw |-> initial_password,
         final_hash |-> hash_function(end.P),
         calls |-> end.calls]

\* The password at position k of the chain of start: k (hash, reduce) steps with
\* positions 0..k-1 (find_pas.test_search_from_table).
RECURSIVE ChainPw(_, _)
ChainPw(start, k) ==
    IF k = 0 THEN start
    ELSE reduction_function(hash_function(ChainPw(start, k - 1)), k - 1)

\* ------------------------------------------------------------------ Init
Init ==
    /\ sha \in HashFns
    /\ pc = "start"
    /\ chain_length = 1
    /\ num_entries = 0
    /\ tabla = <<>>
    /\ attempts = 0
    /\ bcalls = {}
    /\ chain_start = None
    /\ chain_t = 0
    /\ chain_out = None
    /\ p0 = None
    /\ search_t = 0
    /\ found = None
    /\ key_idx = None
    /\ key_pw = None
    /\ key_out = None
    /\ seed = {}
    /\ run = 0
    /\ first_table = None
    /\ rt_timeout = 0
    /\ rt_ret = None
    /\ rt_first = None
    /\ csvfile = <<>>
    /\ loaded = None
    /\ verbose = TRUE
    /\ debug = TRUE
    /\ pending = <<>>
    /\ first_start = <<>>
    /\ red_hash = None
    /\ red_pos = 0
    /\ red_pos2 = 0
    /\ red_out = None

\* build_rainbow_table(chain_length, num_entries): the locals before the loop
CallBuild(t, n, verbose_) ==
    /\ pc = "start"
    /\ pc' = "building"
    /\ chain_length' = t
    /\ num_entries' = n
    /\ verbose' = verbose_
    /\ tabla' = <<>>
    /\ attempts' = 0
    /\ UNCHANGED <<sha, bcalls, chainVars, searchVars, keyVars, seedVars, rtVars, fileVars, debug, redVars, workerVars>>

max_attempts == num_entries * AttemptFactor

\* "attempts <= max_attempts"
LoopCondition_le == Cardinality(DOMAIN tabla) < num_entries /\ attempts <= max_attempts

LoopCondition == Cardinality(DOMAIN tabla) < num_entries /\ attempts < max_attempts

\* "tabla[final_hash] = initial_psw" without the membership test
InsertAlways(table, key, value) ==
    [k \in DOMAIN table \cup {key} |-> IF k = key THEN value ELSE table[k]]

\* tabla after "if final_hash not in tabla: tabla[final_hash] = initial_psw"
InsertIfAbsent(table, key, value) ==
    IF key \in DOMAIN table THEN table
    ELSE [k \in DOMAIN table \cup {key} |-> IF k = key THEN value ELSE table[k]]

\* One iteration of the while loop, Pi_ the password generate_random_password drew
BuildAttempt(Pi_) ==
    /\ pc = "building"
    /\ LoopCondition
    /\ attempts' = attempts + 1
    /\ LET chain == build_chain(Pi_, chain_length)
       IN  /\ bcalls' = bcalls \cup chain.calls
           /\ tabla' = InsertIfAbsent(tabla, chain.final_hash, chain.initial_psw)
    /\ UNCHANGED <<sha, pc, chain_length, num_entries, chainVars, searchVars, keyVars, seedVars, rtVars, fileVars, verbose, debug, redVars, workerVars>>

\* "Eficiencia: {len(tabla)/attempts*100:.2f}%" of the closing report divides by
\* attempts
ReportRaises == verbose /\ attempts = 0

\* The loop condition fails, the closing report is printed: return tabla
BuildReturn ==
    /\ pc = "building"
    /\ ~LoopCondition
    /\ ~ReportRaises
    /\ pc' = "returned"
    /\ UNCHANGED <<sha, buildVars, chainVars, searchVars, keyVars, seedVars, rtVars, fileVars, verbose, debug, redVars, workerVars>>

\* The loop condition fails and the closing report raises ZeroDivisionError:
\* the call ends in the exception, no table is returned
BuildRaise ==
    /\ pc = "building"
    /\ ~LoopCondition
    /\ ReportRaises
    /\ pc' = "raised"
    /\ UNCHANGED <<sha, buildVars, chainVars, searchVars, keyVars, seedVars, rtVars, fileVars, verbose, debug, redVars, workerVars>>

\* "rainbow_table = build_rainbow_table(...)": the caller keeps the table, the
\* locals of the construction are gone
ReceiveTable ==
    /\ pc = "returned"
    /\ pc' = "table"
    /\ attempts' = 0
    /\ verbose' = TRUE
    /\ UNCHANGED <<sha, chain_length, num_entries, tabla, bcalls, chainVars, searchVars,
                   keyVars, seedVars, rtVars, fileVars, debug, redVars, workerVars>>

\* ------------------------------------------------------ search_collision
\* Phase 1, "for j in range(i, chain_length - 1)": p after the projection from
\* loop value j; link is the chain position the hypothesis puts p at.
\* the projection with "iteration=j + 1"
RECURSIVE project_shifted(_, _, _, _, _)
project_shifted(p, j, link, chain_length_, calls) ==
    IF j >= chain_length_ - 1 THEN [p |-> p, calls |-> calls]
    ELSE project_shifted(hash_function(reduction_function(p, j + 1)), j + 1, link + 1,
                         chain_length_, calls \cup {<<"project", link, j + 1>>})

RECURSIVE project(_, _, _, _, _)
project(p, j, link, chain_length_, calls) ==
    IF j >= chain_length_ - 1 THEN [p |-> p, calls |-> calls]
    ELSE project(hash_function(reduction_function(p, j)), j + 1, link + 1,
                 chain_length_, calls \cup {<<"project", link, j>>})

\* Phase 2, "for step in range(chain_length - 1)" and the check of the last
\* password after it: the password returned, or None on a false alarm.
\* the replay without the check of the last password after the loop
RECURSIVE replay_no_last(_, _, _, _, _, _)
replay_no_last(pwd, step, link, target, chain_length_, calls) ==
    IF step >= chain_length_ - 1 THEN [result |-> None, calls |-> calls]
    ELSE IF hash_function(pwd) = target THEN [result |-> pwd, calls |-> calls]
    ELSE replay_no_last(reduction_function(hash_function(pwd), step), step + 1, link + 1,
                        target, chain_length_, calls \cup {<<"replay", link, step>>})

\* the replay returning the last password without comparing its hash
RECURSIVE replay_unchecked(_, _, _, _, _, _)
replay_unchecked(pwd, step, link, target, chain_length_, calls) ==
    IF step >= chain_length_ - 1 THEN [result |-> pwd, calls |-> calls]
    ELSE IF hash_function(pwd) = target THEN [result |-> pwd, calls |-> calls]
    ELSE replay_unchecked(reduction_function(hash_function(pwd), step), step + 1, link + 1,
                          target, chain_length_, calls \cup {<<"replay", link, step>>})

\* the replay with "for step in range(chain_length)": one password too many
RECURSIVE replay_one_more(_, _, _, _, _, _)
replay_one_more(pwd, step, link, target, chain_length_, calls) ==
    IF hash_function(pwd) = target THEN [result |-> pwd, calls |-> calls]
    ELSE IF step >= chain_length_ THEN [result |-> None, calls |-> calls]
    ELSE replay_one_more(reduction_function(hash_function(pwd), step), step + 1, link + 1,
                         target, chain_length_, calls \cup {<<"replay", link, step>>})

RECURSIVE replay(_, _, _, _, _, _)
replay(pwd, step, link, target, chain_length_, calls) ==
    IF hash_function(pwd) = target THEN [result |-> pwd, calls |-> calls]
    ELSE IF step >= chain_length_ - 1 THEN [result |-> None, calls |-> calls]
    ELSE replay(reduction_function(hash_function(pwd), step), step + 1, link + 1,
                target, chain_length_, calls \cup {<<"replay", link, step>>})

\* "found_entry = rainbow_table.pop(p)": the entry read is taken out of the table
dict_pop(table, key) ==
    [value |-> table[key], table |-> [k \in DOMAIN table \ {key} |-> table[k]]]

\* "found_entry = rainbow_table[p]": the value read and the table after the read
dict_getitem(table, key) == [value |-> table[key], table |-> table]

\* "for i in range(chain_length)" from loop value i. The trace holds the result,
\* the reductions made, the positions tried and those that were false alarms.
\* the outer loop with a "break" after a false alarm
RECURSIVE search_loop_break(_, _, _, _, _)
search_loop_break(i, target, rainbow_table, chain_length_, trace) ==
    IF i >= chain_length_ THEN trace
    ELSE LET proj == project(target, i, i, chain_length_, trace.calls)
             tried == trace.tried \cup {i}
         IN  IF proj.p \in DOMAIN rainbow_table
             THEN LET got == dict_getitem(rainbow_table, proj.p)
                      rep == replay(got.value, 0, 0, target, chain_length_, proj.calls)
                  IN  IF rep.result # None
                      THEN [trace EXCEPT !.result = rep.result, !.calls = rep.calls,
                                         !.tried = tried, !.table = got.table]
                      ELSE [trace EXCEPT !.calls = rep.calls, !.tried = tried,
                                         !.alarms = @ \cup {i}, !.table = got.table]
             ELSE search_loop_break(i + 1, target, rainbow_table, chain_length_,
                                    [trace EXCEPT !.calls = proj.calls, !.tried = tried])

RECURSIVE search_loop(_, _, _, _, _)
search_loop(i, target, rainbow_table, chain_length_, trace) ==
    IF i >= chain_length_ THEN trace
    ELSE LET proj == project(target, i, i, chain_length_, trace.calls)
             tried == trace.tried \cup {i}
         IN  IF proj.p \in DOMAIN rainbow_table
             THEN LET got == dict_getitem(rainbow_table, proj.p)
                      rep == replay(got.value, 0, 0, target, chain_length_, proj.calls)
                  IN  IF rep.result # None
                      THEN [trace EXCEPT !.result = rep.result, !.calls = rep.calls,
                                         !.tried = tried, !.table = got.table]
                      ELSE search_loop(i + 1, target, got.table, chain_length_,
                                       [trace EXCEPT !.calls = rep.calls, !.tried = tried,
                                                     !.alarms = @ \cup {i},
                                                     !.table = got.table])
             ELSE search_loop(i + 1, target, rainbow_table, chain_length_,
                              [trace EXCEPT !.calls = proj.calls, !.tried = tried])

\* The same search with "for i in range(chain_length - 1, -1, -1)", the order of
\* code_chati lookup, from loop value i
RECURSIVE search_loop_down(_, _, _, _, _)
search_loop_down(i, target, rainbow_table, chain_length_, trace) ==
    IF i < 0 THEN trace
    ELSE LET proj == project(target, i, i, chain_length_, trace.calls)
             tried == trace.tried \cup {i}
         IN  IF proj.p \in DOMAIN rainbow_table
             THEN LET got == dict_getitem(rainbow_table, proj.p)
                      rep == replay(got.value, 0, 0, target, chain_length_, proj.calls)
                  IN  IF rep.result # None
                      THEN [trace EXCEPT !.result = rep.result, !.calls = rep.calls,
                                         !.tried = tried, !.table = got.table]
                      ELSE search_loop_down(i - 1, target, got.table, chain_length_,
                                            [trace EXCEPT !.calls = rep.calls,
                                                          !.tried = tried,
                                                          !.alarms = @ \cup {i},
                                                          !.table = got.table])
             ELSE search_loop_down(i - 1, target, rainbow_table, chain_length_,
                                   [trace EXCEPT !.calls = proj.calls, !.tried = tried])

search_trace_down(target, rainbow_table, chain_length_) ==
    search_loop_down(chain_length_ - 1, target, rainbow_table, chain_length_,
                     [result |-> None, calls |-> {}, tried |-> {}, alarms |-> {},
                      table |-> rainbow_table])

search_trace(target, rainbow_table, chain_length_) ==
    search_loop(0, target, rainbow_table, chain_length_,
                [result |-> None, calls |-> {}, tried |-> {}, alarms |-> {},
                 table |-> rainbow_table])

search_collision(target, rainbow_table, chain_length_) ==
    search_trace(target, rainbow_table, chain_length_).result

\* search_collision(target, rainbow_table, t) on the table the caller holds
Search(target, t) ==
    /\ pc = "table"
    /\ pc' = "searched"
    /\ p0' = target
    /\ search_t' = t
    /\ found' = search_trace(target, tabla, t)
    /\ tabla' = found'.table
    /\ UNCHANGED <<sha, chain_length, num_entries, attempts, bcalls, chainVars, keyVars,
                   seedVars, rtVars, fileVars, verbose, debug, redVars, workerVars>>

\* the caller's loop over its tests comes to the next search_collision on the
\* table it holds
NextTest ==
    /\ pc = "searched"
    /\ pc' = "table"
    /\ p0' = None
    /\ search_t' = 0
    /\ found' = None
    /\ UNCHANGED <<sha, buildVars, chainVars, keyVars, seedVars, rtVars, fileVars, verbose, debug, redVars, workerVars>>

Next ==
    \/ \E t \in 1 .. MaxT, n \in 0 .. MaxN, verbose_ \in BOOLEAN : CallBuild(t, n, verbose_)
    \/ \E p \in Password : BuildAttempt(p)
    \/ BuildReturn
    \/ BuildRaise
    \/ ReceiveTable
    \/ \E target \in Digest, t \in 1 .. MaxT : Search(target, t)
    \/ NextTest

Spec == Init /\ [][Next]_vars

\* build_rainbow_table on its own; the running loop takes its next step
NextBuild ==
    \/ \E t \in 1 .. MaxT, n \in 0 .. MaxN, verbose_ \in BOOLEAN : CallBuild(t, n, verbose_)
    \/ \E p \in Password : BuildAttempt(p)
    \/ BuildReturn
    \/ BuildRaise

FairBuild == Init /\ [][NextBuild]_vars /\ WF_vars(NextBuild)

\* ------------------------------------------- build_chain called on its own
InitChain ==
    /\ sha \in HashFns
    /\ pc = "chain"
    /\ chain_start \in Password
    /\ chain_t \in 1 .. MaxT
    /\ chain_out = None
    /\ chain_length = 1
    /\ num_entries = 0
    /\ tabla = <<>>
    /\ attempts = 0
    /\ bcalls = {}
    /\ p0 = None
    /\ search_t = 0
    /\ found = None
    /\ key_idx = None
    /\ key_pw = None
    /\ key_out = None
    /\ seed = {}
    /\ run = 0
    /\ first_table = None
    /\ rt_timeout = 0
    /\ rt_ret = None
    /\ rt_first = None
    /\ csvfile = <<>>
    /\ loaded = None
    /\ verbose = TRUE
    /\ debug = TRUE
    /\ pending = <<>>
    /\ first_start = <<>>
    /\ red_hash = None
    /\ red_pos = 0
    /\ red_pos2 = 0
    /\ red_out = None

\* build_chain(chain_start, chain_t) returns
CallChain ==
    /\ pc = "chain"
    /\ pc' = "chain_done"
    /\ chain_out' = build_chain(chain_start, chain_t)
    /\ UNCHANGED <<sha, chain_start, chain_t, buildVars, searchVars, keyVars, seedVars, rtVars, fileVars, verbose, debug, redVars, workerVars>>

NextChain == CallChain

SpecChain == InitChain /\ [][NextChain]_vars
\* ------------------------- index_to_pw and pw_to_index called on their own
InitKey ==
    /\ sha \in HashFns
    /\ pc = "key"
    /\ key_idx \in (0 - KeyMargin) .. (SPACE_SIZE - 1 + KeyMargin)
    /\ key_pw \in Password
    /\ key_out = None
    /\ seed = {}
    /\ run = 0
    /\ first_table = None
    /\ rt_timeout = 0
    /\ rt_ret = None
    /\ rt_first = None
    /\ csvfile = <<>>
    /\ loaded = None
    /\ verbose = TRUE
    /\ debug = TRUE
    /\ pending = <<>>
    /\ first_start = <<>>
    /\ red_hash = None
    /\ red_pos = 0
    /\ red_pos2 = 0
    /\ red_out = None
    /\ chain_start = None
    /\ chain_t = 0
    /\ chain_out = None
    /\ chain_length = 1
    /\ num_entries = 0
    /\ tabla = <<>>
    /\ attempts = 0
    /\ bcalls = {}
    /\ p0 = None
    /\ search_t = 0
    /\ found = None

\* pw = index_to_pw(key_idx); idx = pw_to_index(key_pw), and each converted back.
\* Neither function tests its argument or raises.
CallKey ==
    /\ pc = "key"
    /\ pc' = "key_done"
    /\ key_out' = [pw |-> index_to_pw(key_idx),
                   idx |-> pw_to_index(key_pw),
                   back_idx |-> pw_to_index(index_to_pw(key_idx)),
                   back_pw |-> index_to_pw(pw_to_index(key_pw))]
    /\ UNCHANGED <<sha, key_idx, key_pw, buildVars, chainVars, searchVars, seedVars, rtVars, fileVars, verbose, debug, redVars, workerVars>>

NextKey == CallKey

SpecKey == InitKey /\ [][NextKey]_vars

\* ======================================= code_chati: build_table.py, lookup.py
\* The variables are shared with const_tabla / find_pas: num_entries is n,
\* chain_length is t, tabla is table (keyed by the hex string of the endpoint),
\* p0 is H_target_bytes, search_t the t given to lookup, found its trace.
hash_trunc40(password) == sha[password]

\* bytes.hex(): the hex digits of the digest, most significant first
bytes_to_hex(b) == <<b \div 16, b % 16>>

R(i, h_bytes) == index_to_pw((h_bytes + i) % SPACE_SIZE)

\* "for j in range(1, t): h = hash_trunc40(P); P = R(j, h)"
RECURSIVE build_table_chain(_, _, _, _, _)
build_table_chain(P, j, link, t, calls) ==
    IF j >= t THEN [P |-> P, calls |-> calls]
    ELSE build_table_chain(R(j, hash_trunc40(P)), j + 1, link + 1, t,
                           calls \cup {<<link, j>>})

\* build_table(n, t): the locals before the loop
build_table_call(n, t) ==
    /\ pc = "start"
    /\ pc' = "building"
    /\ num_entries' = n
    /\ chain_length' = t
    /\ tabla' = <<>>
    /\ attempts' = 0
    /\ UNCHANGED <<sha, bcalls, chainVars, searchVars, keyVars, seedVars, rtVars, fileVars, verbose, debug, redVars, workerVars>>

\* One iteration of "while len(table) < n", start_idx drawn by randbelow(SPACE_SIZE).
\* The loop has no condition on attempts; the counter is followed up to AttemptCap
build_table_attempt(start_idx) ==
    /\ pc = "building"
    /\ Cardinality(DOMAIN tabla) < num_entries
    /\ attempts' = IF attempts < AttemptCap THEN attempts + 1 ELSE attempts
    /\ LET start_pw == index_to_pw(start_idx)
           end == build_table_chain(start_pw, 1, 0, chain_length, {})
           endpoint_hex == bytes_to_hex(hash_trunc40(end.P))
       IN  /\ bcalls' = bcalls \cup end.calls
           /\ tabla' = InsertIfAbsent(tabla, endpoint_hex, start_pw)
    /\ UNCHANGED <<sha, pc, chain_length, num_entries, chainVars, searchVars, keyVars, seedVars, rtVars, fileVars, verbose, debug, redVars, workerVars>>

\* len(table) = n: return table; the caller keeps it
build_table_return ==
    /\ pc = "building"
    /\ ~(Cardinality(DOMAIN tabla) < num_entries)
    /\ pc' = "table"
    /\ attempts' = 0
    /\ UNCHANGED <<sha, chain_length, num_entries, tabla, bcalls, chainVars, searchVars, keyVars, seedVars, rtVars, fileVars, verbose, debug, redVars, workerVars>>

\* "for j in range(i, t): pw = R(j+1, temp); temp = hash_trunc40_from_pw(pw)"
RECURSIVE lookup_project(_, _, _, _, _)
lookup_project(temp, j, link, t, calls) ==
    IF j >= t THEN [temp |-> temp, calls |-> calls]
    ELSE lookup_project(hash_trunc40(R(j + 1, temp)), j + 1, link + 1, t,
                        calls \cup {<<"project", link, j + 1>>})

\* "for k in range(0, t)": the password returned, or None when the loop ends
RECURSIVE lookup_replay(_, _, _, _, _, _)
lookup_replay(P, k, link, H_target_bytes, t, calls) ==
    IF k >= t THEN [result |-> None, calls |-> calls]
    ELSE IF hash_trunc40(P) = H_target_bytes THEN [result |-> P, calls |-> calls]
    ELSE lookup_replay(R(k + 1, hash_trunc40(P)), k + 1, link + 1, H_target_bytes, t,
                       calls \cup {<<"replay", link, k + 1>>})

\* "for i in range(t-1, -1, -1)" from loop value i
RECURSIVE lookup_loop(_, _, _, _, _)
lookup_loop(i, H_target_bytes, table, t, trace) ==
    IF i < 0 THEN trace
    ELSE LET proj == lookup_project(H_target_bytes, i, i, t, trace.calls)
             endpoint_candidate == bytes_to_hex(proj.temp)
             tried == trace.tried \cup {i}
         IN  IF endpoint_candidate \in DOMAIN table
             THEN LET rep == lookup_replay(table[endpoint_candidate], 0, 0,
                                           H_target_bytes, t, proj.calls)
                  IN  IF rep.result # None
                      THEN [trace EXCEPT !.result = rep.result, !.calls = rep.calls,
                                         !.tried = tried]
                      ELSE lookup_loop(i - 1, H_target_bytes, table, t,
                                       [trace EXCEPT !.calls = rep.calls, !.tried = tried,
                                                     !.alarms = @ \cup {i}])
             ELSE lookup_loop(i - 1, H_target_bytes, table, t,
                              [trace EXCEPT !.calls = proj.calls, !.tried = tried])

lookup_trace(H_target_bytes, table, t) ==
    lookup_loop(t - 1, H_target_bytes, table, t,
                [result |-> None, calls |-> {}, tried |-> {}, alarms |-> {}])

lookup(H_target_bytes, table, t) == lookup_trace(H_target_bytes, table, t).result

\* result = lookup(H_target_bytes, table, args.t)
Lookup(H_target_bytes, t) ==
    /\ pc = "table"
    /\ pc' = "looked"
    /\ p0' = H_target_bytes
    /\ search_t' = t
    /\ found' = lookup_trace(H_target_bytes, tabla, t)
    /\ UNCHANGED <<sha, buildVars, chainVars, keyVars, seedVars, rtVars, fileVars, verbose, debug, redVars, workerVars>>

NextChati ==
    \/ \E n \in 0 .. MaxN, t \in 1 .. MaxT : build_table_call(n, t)
    \/ \E start_idx \in 0 .. (SPACE_SIZE - 1) : build_table_attempt(start_idx)
    \/ build_table_return
    \/ \E H \in Digest, t \in 1 .. MaxT : Lookup(H, t)

SpecChati == Init /\ [][NextChati]_vars

\* build_table on its own, also asked for more entries than the key space has
\* passwords; the running loop takes its next iteration
NextChatiBuild ==
    \/ \E n \in (0 .. MaxN) \cup {SPACE_SIZE + 1}, t \in 1 .. MaxT : build_table_call(n, t)
    \/ \E start_idx \in 0 .. (SPACE_SIZE - 1) : build_table_attempt(start_idx)
    \/ build_table_return

FairChatiBuild == Init /\ [][NextChatiBuild]_vars /\ WF_vars(NextChatiBuild)

\* ------------------------------------------- build_table(n, t, seed), twice
SeedValues == {42}

\* secrets.randbelow(x)
secrets_randbelow(x) == 0 .. (x - 1)

\* secrets.SystemRandom(seed).randrange(x): SystemRandom reads the operating
\* system's entropy source, its seed argument is ignored and it keeps no state
SystemRandom_randrange(seed_, x) == 0 .. (x - 1)

\* the values a call of the local randbelow can return
randbelow(x) ==
    IF seed # {} THEN SystemRandom_randrange(seed, x) ELSE secrets_randbelow(x)

\* build_table(n, t, seed_): the locals before the loop
build_table_seeded(n, t, seed_) ==
    /\ pc = "start"
    /\ pc' = "building"
    /\ num_entries' = n
    /\ chain_length' = t
    /\ tabla' = <<>>
    /\ attempts' = 0
    /\ seed' = {seed_}
    /\ run' = 1
    /\ UNCHANGED <<sha, bcalls, chainVars, searchVars, keyVars, first_table, rtVars, fileVars, verbose, debug, redVars, workerVars>>

\* the caller keeps the first table and calls build_table again with the same
\* n, t and seed
SecondRun ==
    /\ pc = "table"
    /\ run = 1
    /\ first_table' = tabla
    /\ run' = 2
    /\ pc' = "building"
    /\ tabla' = <<>>
    /\ attempts' = 0
    /\ UNCHANGED <<sha, chain_length, num_entries, bcalls, chainVars, searchVars,
                   keyVars, seed, rtVars, fileVars, verbose, debug, redVars, workerVars>>

NextSeed ==
    \/ \E n \in 0 .. MaxN, t \in 1 .. MaxT, seed_ \in SeedValues :
          build_table_seeded(n, t, seed_)
    \/ \E start_idx \in randbelow(SPACE_SIZE) : build_table_attempt(start_idx)
    \/ build_table_return
    \/ SecondRun

SpecSeed == Init /\ [][NextSeed]_vars

\* ========================================== mainclaude.py: class RainbowTable
\* int(hash_value, 16)
int16(hash_value) == hash_value[1] * 16 + hash_value[2]

\* hashlib.sha256(password.encode()).hexdigest()[:10], the digest in hexadecimal
RT_hash_function(password) == bytes_to_hex(sha[password] % HashMod)

\* "for _ in range(PSW_LEN): password = ALPHABET[hash_int % 26] + password"
RECURSIVE RT_reduction_loop(_, _, _)
RT_reduction_loop(hash_int, k, password) ==
    IF k = 0 THEN password
    ELSE RT_reduction_loop(hash_int \div ALPHABET_SIZE, k - 1,
                           <<ALPHABET[(hash_int % ALPHABET_SIZE) + 1]>> \o password)

RT_reduction_function(hash_value, iteration) ==
    RT_reduction_loop((int16(hash_value) + iteration) % SPACE_SIZE, PSW_LEN, <<>>)

\* "for j in range(self.chain_length - 1)" of build_table
RECURSIVE RT_build_chain(_, _)
RT_build_chain(p, j) ==
    IF j >= chain_length - 1 THEN p
    ELSE RT_build_chain(RT_reduction_function(RT_hash_function(p), j), j + 1)

\* rt = RainbowTable(t, n); rt.build_table(): the locals before the loop
RT_build_call(t, n) ==
    /\ pc = "start"
    /\ pc' = "building"
    /\ chain_length' = t
    /\ num_entries' = n
    /\ tabla' = <<>>
    /\ attempts' = 0
    /\ UNCHANGED <<sha, bcalls, chainVars, searchVars, keyVars, seedVars, rtVars, fileVars, verbose, debug, redVars, workerVars>>

\* One iteration of "while len(self.table) < self.table_size", pi the password
\* generate_random_password drew
RT_build_attempt(pi) ==
    /\ pc = "building"
    /\ Cardinality(DOMAIN tabla) < num_entries
    /\ attempts < AttemptCap
    /\ attempts' = attempts + 1
    /\ tabla' = InsertIfAbsent(tabla, RT_hash_function(RT_build_chain(pi, 0)), pi)
    /\ UNCHANGED <<sha, pc, chain_length, num_entries, bcalls, chainVars, searchVars,
                   keyVars, seedVars, rtVars, fileVars, verbose, debug, redVars, workerVars>>

\* the loop ends: the object keeps the table
RT_build_return ==
    /\ pc = "building"
    /\ ~(Cardinality(DOMAIN tabla) < num_entries)
    /\ pc' = "table"
    /\ attempts' = 0
    /\ UNCHANGED <<sha, chain_length, num_entries, tabla, bcalls, chainVars, searchVars,
                   keyVars, seedVars, rtVars, fileVars, verbose, debug, redVars, workerVars>>

\* The values time.time() - start_time can have at a reading that follows one
\* that gave elapsed
Later(elapsed) == elapsed .. (elapsed + MaxTick)

\* "for j in range(self.chain_length)" of search_collision: the password
\* returned, or None when the loop ends
RECURSIVE RT_replay(_, _, _)
RT_replay(pwd, j, target_hash) ==
    IF j >= chain_length THEN None
    ELSE IF RT_hash_function(pwd) = target_hash THEN pwd
    ELSE RT_replay(RT_reduction_function(RT_hash_function(pwd), j), j + 1, target_hash)

\* "for i in range(self.chain_length)" from loop value i with the elapsed time
\* of the last reading: every (tuple returned, return statement) the call can
\* end with
RECURSIVE RT_search_loop(_, _, _, _, _)
RT_search_loop(i, p, elapsed, target_hash, timeout) ==
    IF i >= chain_length
    THEN { [value |-> <<None, e>>, outcome |-> "exhausted", tried |-> 0 .. (i - 1)] :
             e \in Later(elapsed) }
    ELSE UNION { IF now > timeout
                 THEN { [value |-> <<None, e>>, outcome |-> "timed_out",
                         tried |-> 0 .. (i - 1)] : e \in Later(now) }
                 ELSE IF p \in DOMAIN tabla
                      THEN LET pwd == RT_replay(tabla[p], 0, target_hash)
                           IN  IF pwd # None
                               THEN { [value |-> <<pwd, e>>, outcome |-> "found",
                                       tried |-> 0 .. i] : e \in Later(now) }
                               ELSE { [value |-> <<None, e>>, outcome |-> "false_alarm",
                                       tried |-> 0 .. i] : e \in Later(now) }
                      ELSE RT_search_loop(i + 1,
                               RT_hash_function(RT_reduction_function(p, chain_length - 1 - i)),
                               now, target_hash, timeout)
               : now \in Later(elapsed) }

RT_search_collision(target_hash, timeout) ==
    RT_search_loop(0, target_hash, 0, target_hash, timeout)

\* found_pwd, search_time = rt.search_collision(target_hash, timeout); after a
\* search that timed out the caller may run the same search again
RT_Search(target_hash, timeout) ==
    /\ \/ pc = "table"
       \/ pc = "rt_retry" /\ target_hash = p0
    /\ pc' = IF pc = "table" THEN "rt_done" ELSE "rt_done2"
    /\ p0' = target_hash
    /\ rt_timeout' = timeout
    /\ rt_ret' \in RT_search_collision(target_hash, timeout)
    /\ UNCHANGED <<sha, buildVars, chainVars, search_t, found, keyVars, seedVars, rt_first, fileVars, verbose, debug, redVars, workerVars>>

RT_Retry ==
    /\ pc = "rt_done"
    /\ rt_ret.outcome = "timed_out"
    /\ pc' = "rt_retry"
    /\ rt_first' = rt_ret
    /\ rt_ret' = None
    /\ UNCHANGED <<sha, buildVars, chainVars, searchVars, keyVars, seedVars, rt_timeout, fileVars, verbose, debug, redVars, workerVars>>

NextRT ==
    \/ \E t \in 1 .. MaxT, n \in 0 .. MaxN : RT_build_call(t, n)
    \/ \E pi \in Password : RT_build_attempt(pi)
    \/ RT_build_return
    \/ \E h \in Digest, timeout \in 0 .. MaxTimeout : RT_Search(bytes_to_hex(h), timeout)
    \/ RT_Retry

SpecRT == Init /\ [][NextRT]_vars

\* ================== const_tabla.save_rainbow_table, find_pas.load_rainbow_table
\* str(n) of a non-negative integer: its decimal digits
RECURSIVE str(_)
str(n) == IF n < 10 THEN <<n>> ELSE str(n \div 10) \o <<n % 10>>

\* int(s) of a string of decimal digits
RECURSIVE int(_)
int(s) == IF Len(s) = 0 THEN 0 ELSE int(SubSeq(s, 1, Len(s) - 1)) * 10 + s[Len(s)]

\* final_hash.hex(): two hexadecimal digits
hex(final_hash) == <<final_hash \div 16, final_hash % 16>>

\* bytes.fromhex read with the low digit first
fromhex_low_first(final_hash_hex) == final_hash_hex[2] * 16 + final_hash_hex[1]

\* bytes.fromhex(final_hash_hex)
fromhex(final_hash_hex) == final_hash_hex[1] * 16 + final_hash_hex[2]

\* The rows save_rainbow_table writes; items is tabla.items() as the sequence of
\* the keys in the order of the dictionary
save_rainbow_table(table, chain_length_, num_entries_, items) ==
    << <<"# Rainbow Table">>,
       <<"# Chain Length (t)", str(chain_length_)>>,
       <<"# Target Entries (n)", str(num_entries_)>>,
       <<"# Actual Entries", str(Cardinality(DOMAIN table))>>,
       <<"# Alphabet", ALPHABET>>,
       <<"# Password Length", str(PSW_LEN)>>,
       <<"# Hash Length (bits)", str(HASH_LEN)>>,
       <<"# Space Size", str(SPACE_SIZE)>>,
       <<"# Coverage (%)", "coverage">>,
       <<"# Timestamp", "timestamp">>,
       <<>>,
       <<"initial_password", "final_hash_hex">> >>
    \o [k \in 1 .. Len(items) |-> <<table[items[k]], hex(items[k])>>]

\* "for row in reader: if not row: break; if row[0] == '# Chain Length (t)': ..."
\* from row k
RECURSIVE load_metadata(_, _, _)
load_metadata(rows, k, chain_length_) ==
    IF k > Len(rows) THEN chain_length_
    ELSE IF rows[k] = <<>> THEN chain_length_
    ELSE IF rows[k][1] = "# Chain Length (t)"
         THEN load_metadata(rows, k + 1, int(rows[k][2]))
         ELSE load_metadata(rows, k + 1, chain_length_)

\* "for row in reader: if row and row[0] == 'initial_password': break" from row
\* k of the rewound file: the index of the first row after the break
RECURSIVE load_find_data(_, _)
load_find_data(rows, k) ==
    IF k > Len(rows) THEN k
    ELSE IF rows[k] # <<>> /\ rows[k][1] = "initial_password" THEN k + 1
    ELSE load_find_data(rows, k + 1)

\* "for row in reader: ... tabla[final_hash] = initial_psw" from row k
RECURSIVE load_data(_, _, _)
load_data(rows, k, table) ==
    IF k > Len(rows) THEN table
    ELSE load_data(rows, k + 1, InsertAlways(table, fromhex(rows[k][2]), rows[k][1]))

load_rainbow_table(rows) ==
    [tabla |-> load_data(rows, load_find_data(rows, 1), <<>>),
     chain_length |-> load_metadata(rows, 1, 0)]

\* the orders in which a dictionary can hold the keys of table
ItemOrders(table) ==
    { items \in [1 .. Cardinality(DOMAIN table) -> DOMAIN table] :
        \A a, b \in DOMAIN items : a # b => items[a] # items[b] }

\* filepath = save_rainbow_table(tabla, chain_length, num_entries)
Save(items) ==
    /\ pc = "table"
    /\ pc' = "saved"
    /\ csvfile' = save_rainbow_table(tabla, chain_length, num_entries, items)
    /\ UNCHANGED <<sha, buildVars, chainVars, searchVars, keyVars, seedVars, rtVars, loaded, verbose, debug, redVars, workerVars>>

\* rainbow_table, chain_length = load_rainbow_table(filepath)
Load ==
    /\ pc = "saved"
    /\ pc' = "loaded"
    /\ loaded' = load_rainbow_table(csvfile)
    /\ UNCHANGED <<sha, buildVars, chainVars, searchVars, keyVars, seedVars, rtVars, csvfile, verbose, debug, redVars, workerVars>>

NextPersist ==
    \/ \E t \in 1 .. MaxT, n \in 0 .. MaxN, verbose_ \in BOOLEAN : CallBuild(t, n, verbose_)
    \/ \E p \in Password : BuildAttempt(p)
    \/ BuildReturn
    \/ BuildRaise
    \/ ReceiveTable
    \/ \E items \in ItemOrders(tabla) : Save(items)
    \/ Load

SpecPersist == Init /\ [][NextPersist]_vars

\* ===================================================================== main.py
\* "for _ in range(PSW_LEN): temp, index = divmod(temp, ALPHABET_SIZE);
\*  password.append(ALPHABET[index])"
RECURSIVE main_reduction_loop(_, _, _)
main_reduction_loop(temp, k, password) ==
    IF k >= PSW_LEN THEN password
    ELSE main_reduction_loop(temp \div ALPHABET_SIZE, k + 1,
                             Append(password, ALPHABET[(temp % ALPHABET_SIZE) + 1]))

main_reduction_function(hash_bytes, step) ==
    reversed(main_reduction_loop((hash_bytes + step) % SPACE_SIZE, 0, <<>>))

\* "for j in range(t - 1): current = reduction_function(hash_function(current), j)"
RECURSIVE main_chain(_, _, _)
main_chain(current, j, t) ==
    IF j >= t - 1 THEN current
    ELSE main_chain(main_reduction_function(hash_function(current), j), j + 1, t)

\* "if final_hash_int not in rainbow_table: rainbow_table[final_hash_int] = []"
\* and "rainbow_table[final_hash_int].append(start_pwd)"
main_store(rainbow_table, final_hash_int, start_pwd) ==
    [k \in DOMAIN rainbow_table \cup {final_hash_int} |->
        IF k = final_hash_int
        THEN Append(IF k \in DOMAIN rainbow_table THEN rainbow_table[k] ELSE <<>>, start_pwd)
        ELSE rainbow_table[k]]

\* build_rainbow_table(n, t): the empty dictionary before the loop; attempts
\* counts the iterations of "for _ in range(n)"
main_build_call(n, t) ==
    /\ pc = "start"
    /\ pc' = "building"
    /\ num_entries' = n
    /\ chain_length' = t
    /\ tabla' = <<>>
    /\ attempts' = 0
    /\ UNCHANGED <<sha, bcalls, chainVars, searchVars, keyVars, seedVars, rtVars,
                   fileVars, verbose, debug, redVars, workerVars>>

\* one iteration of "for _ in range(n)", start_pwd the password drawn
main_build_iteration(start_pwd) ==
    /\ pc = "building"
    /\ attempts < num_entries
    /\ attempts' = attempts + 1
    /\ tabla' = main_store(tabla, hash_function(main_chain(start_pwd, 0, chain_length)),
                           start_pwd)
    /\ UNCHANGED <<sha, pc, chain_length, num_entries, bcalls, chainVars, searchVars,
                   keyVars, seedVars, rtVars, fileVars, verbose, debug, redVars, workerVars>>

\* the loop is over: table = build_rainbow_table(n, t)
main_build_return ==
    /\ pc = "building"
    /\ attempts >= num_entries
    /\ pc' = "table"
    /\ UNCHANGED <<sha, buildVars, chainVars, searchVars, keyVars, seedVars, rtVars,
                   fileVars, verbose, debug, redVars, workerVars>>

\* "for j in range(i, t - 1)" of find_collision
RECURSIVE main_project(_, _, _)
main_project(current_hash, j, t) ==
    IF j >= t - 1 THEN current_hash
    ELSE main_project(hash_function(main_reduction_function(current_hash, j)), j + 1, t)

\* "for step in range(t - 1)": the candidate returned, or None when the loop ends
RECURSIVE main_replay(_, _, _, _)
main_replay(candidate, step, target_hash, t) ==
    IF step >= t - 1 THEN None
    ELSE IF hash_function(candidate) = target_hash THEN candidate
    ELSE main_replay(main_reduction_function(hash_function(candidate), step), step + 1,
                     target_hash, t)

\* "for start_pwd in rainbow_table[current_int]" from the k-th start of the list
RECURSIVE main_starts(_, _, _, _)
main_starts(starts, k, target_hash, t) ==
    IF k > Len(starts) THEN None
    ELSE LET candidate == main_replay(starts[k], 0, target_hash, t)
         IN  IF candidate # None THEN candidate
             ELSE main_starts(starts, k + 1, target_hash, t)

\* "for i in range(t)" from loop value i
RECURSIVE main_find_loop(_, _, _, _)
main_find_loop(i, target_hash, rainbow_table, t) ==
    IF i >= t THEN None
    ELSE LET current_int == main_project(target_hash, i, t)
             candidate == IF current_int \in DOMAIN rainbow_table
                          THEN main_starts(rainbow_table[current_int], 1, target_hash, t)
                          ELSE None
         IN  IF candidate # None THEN candidate
             ELSE main_find_loop(i + 1, target_hash, rainbow_table, t)

find_collision(target_hash, rainbow_table, t) ==
    main_find_loop(0, target_hash, rainbow_table, t)

\* collision = find_collision(target_hash, table, t)
main_find(target_hash) ==
    /\ pc = "table"
    /\ pc' = "main_done"
    /\ p0' = target_hash
    /\ search_t' = chain_length
    /\ found' = [result |-> find_collision(target_hash, tabla, chain_length)]
    /\ UNCHANGED <<sha, buildVars, chainVars, keyVars, seedVars, rtVars, fileVars, verbose, debug, redVars, workerVars>>

NextMain ==
    \/ \E n \in 0 .. MaxN, t \in 1 .. MaxT : main_build_call(n, t)
    \/ \E start_pwd \in Password : main_build_iteration(start_pwd)
    \/ main_build_return
    \/ \E target_hash \in Digest : main_find(target_hash)

SpecMain == Init /\ [][NextMain]_vars

\* ===================================== mainclaudedebug.py: class RainbowTable
RTD_hash_function(password) == bytes_to_hex(sha[password] % HashMod)

\* "for i in range(PSW_LEN): password = ALPHABET[current % 26] + password"
RECURSIVE RTD_reduction_loop(_, _, _)
RTD_reduction_loop(current, k, password) ==
    IF k = 0 THEN password
    ELSE RTD_reduction_loop(current \div ALPHABET_SIZE, k - 1,
                            <<ALPHABET[(current % ALPHABET_SIZE) + 1]>> \o password)

RTD_reduction_function(hash_value, iteration) ==
    RTD_reduction_loop((int16(hash_value) + iteration * IterationStride) % HashMod,
                       PSW_LEN, <<>>)

\* "for j in range(n)": p after the steps j .. n - 1 of a chain
RECURSIVE RTD_chain(_, _, _)
RTD_chain(p, j, n) ==
    IF j >= n THEN p
    ELSE RTD_chain(RTD_reduction_function(RTD_hash_function(p), j), j + 1, n)

\* rt = RainbowTable(t, n); rt.debug = debug_; rt.build_table(): before the loop
RTD_build_call(t, n, debug_) ==
    /\ pc = "start"
    /\ pc' = "building"
    /\ chain_length' = t
    /\ num_entries' = n
    /\ debug' = debug_
    /\ tabla' = <<>>
    /\ attempts' = 0
    /\ UNCHANGED <<sha, bcalls, chainVars, searchVars, keyVars, seedVars, rtVars,
                   fileVars, verbose, redVars, workerVars>>

\* One iteration of "while len(self.table) < self.table_size"
RTD_build_attempt(pi) ==
    /\ pc = "building"
    /\ Cardinality(DOMAIN tabla) < num_entries
    /\ attempts < AttemptCap
    /\ attempts' = attempts + 1
    /\ tabla' = InsertIfAbsent(tabla,
                    RTD_hash_function(RTD_chain(pi, 0, chain_length - 1)), pi)
    /\ UNCHANGED <<sha, pc, chain_length, num_entries, bcalls, chainVars, searchVars,
                   keyVars, seedVars, rtVars, fileVars, verbose, debug, redVars, workerVars>>

\* diagnose_table reads sample_entries[0]: IndexError on an empty table
DiagnoseRaises == debug /\ tabla = <<>>

\* the loop ends, the diagnosis is printed: the object keeps the table
RTD_build_return ==
    /\ pc = "building"
    /\ ~(Cardinality(DOMAIN tabla) < num_entries)
    /\ ~DiagnoseRaises
    /\ pc' = "table"
    /\ attempts' = 0
    /\ debug' = TRUE
    /\ UNCHANGED <<sha, chain_length, num_entries, tabla, bcalls, chainVars, searchVars,
                   keyVars, seedVars, rtVars, fileVars, verbose, redVars, workerVars>>

\* the loop ends and the diagnosis raises
RTD_build_raise ==
    /\ pc = "building"
    /\ ~(Cardinality(DOMAIN tabla) < num_entries)
    /\ DiagnoseRaises
    /\ pc' = "raised"
    /\ UNCHANGED <<sha, buildVars, chainVars, searchVars, keyVars, seedVars, rtVars,
                   fileVars, verbose, debug, redVars, workerVars>>

\* the projection with "self.reduction_function(current_hash, j + 1)"
RECURSIVE RTD_project_shifted(_, _)
RTD_project_shifted(current_hash, j) ==
    IF j >= chain_length - 1 THEN current_hash
    ELSE RTD_project_shifted(
             RTD_hash_function(RTD_reduction_function(current_hash, j + 1)), j + 1)

\* "for j in range(pos, self.chain_length - 1)" from loop value j
RECURSIVE RTD_project(_, _)
RTD_project(current_hash, j) ==
    IF j >= chain_length - 1 THEN current_hash
    ELSE RTD_project(RTD_hash_function(RTD_reduction_function(current_hash, j)), j + 1)

\* the outer loop with the deadline tested after the work of the position
RECURSIVE RTD_search_loop_test_last(_, _, _, _)
RTD_search_loop_test_last(pos, elapsed, target_hash, timeout) ==
    IF pos >= chain_length
    THEN { [result |-> None, outcome |-> "exhausted", tested |-> 0 .. (pos - 1),
            worked |-> 0 .. (pos - 1), last |-> elapsed] }
    ELSE LET current_hash == RTD_project(target_hash, pos)
             current_pwd == IF current_hash \in DOMAIN tabla
                            THEN RTD_chain(tabla[current_hash], 0, pos)
                            ELSE None
         IN  IF current_pwd # None /\ RTD_hash_function(current_pwd) = target_hash
             THEN { [result |-> current_pwd, outcome |-> "found",
                     tested |-> 0 .. (pos - 1), worked |-> 0 .. pos, last |-> elapsed] }
             ELSE UNION { IF now > timeout
                          THEN { [result |-> None, outcome |-> "timed_out",
                                  tested |-> 0 .. pos, worked |-> 0 .. pos,
                                  last |-> now] }
                          ELSE RTD_search_loop_test_last(pos + 1, now, target_hash, timeout)
                        : now \in Later(elapsed) }

\* "for pos in range(self.chain_length)" from loop value pos, elapsed the last
\* reading of the clock: every way the call can end. A trace holds the password
\* returned, the return statement, the positions at which the deadline was
\* tested, those for which the projection was made and the clock at the last test
RECURSIVE RTD_search_loop(_, _, _, _)
RTD_search_loop(pos, elapsed, target_hash, timeout) ==
    IF pos >= chain_length
    THEN { [result |-> None, outcome |-> "exhausted", tested |-> 0 .. (pos - 1),
            worked |-> 0 .. (pos - 1), last |-> elapsed] }
    ELSE UNION { IF now > timeout
                 THEN { [result |-> None, outcome |-> "timed_out", tested |-> 0 .. pos,
                         worked |-> 0 .. (pos - 1), last |-> now] }
                 ELSE LET current_hash == RTD_project(target_hash, pos)
                          current_pwd == IF current_hash \in DOMAIN tabla
                                         THEN RTD_chain(tabla[current_hash], 0, pos)
                                         ELSE None
                      IN  IF current_pwd # None
                               /\ RTD_hash_function(current_pwd) = target_hash
                          THEN { [result |-> current_pwd, outcome |-> "found",
                                  tested |-> 0 .. pos, worked |-> 0 .. pos,
                                  last |-> now] }
                          ELSE RTD_search_loop(pos + 1, now, target_hash, timeout)
               : now \in Later(elapsed) }

RTD_search_collision(target_hash, timeout) == RTD_search_loop(0, 0, target_hash, timeout)

\* target_hash = rt.hash_function(password);
\* found_pwd, search_time = rt.search_collision(target_hash, timeout)
RTD_Search(password, timeout) ==
    /\ pc = "table"
    /\ pc' = "rtd_done"
    /\ p0' = RTD_hash_function(password)
    /\ rt_timeout' = timeout
    /\ rt_ret' \in RTD_search_collision(RTD_hash_function(password), timeout)
    /\ UNCHANGED <<sha, buildVars, chainVars, search_t, found, keyVars, seedVars,
                   rt_first, fileVars, verbose, debug, redVars, workerVars>>

NextRTD ==
    \/ \E t \in 1 .. MaxT, n \in 0 .. MaxN, debug_ \in BOOLEAN : RTD_build_call(t, n, debug_)
    \/ \E pi \in Password : RTD_build_attempt(pi)
    \/ RTD_build_return
    \/ RTD_build_raise
    \/ \E password \in Password, timeout \in 0 .. MaxTimeout : RTD_Search(password, timeout)

SpecRTD == Init /\ [][NextRTD]_vars

\* ------------------------------------- reduction_function called on its own
InitReduce ==
    /\ sha \in HashFns
    /\ pc = "reduce"
    /\ red_hash \in Digest
    /\ red_pos \in 0 .. MaxPosition
    /\ red_pos2 \in 0 .. MaxPosition
    /\ red_out = None
    /\ key_idx = None
    /\ key_pw = None
    /\ key_out = None
    /\ chain_start = None
    /\ chain_t = 0
    /\ chain_out = None
    /\ chain_length = 1
    /\ num_entries = 0
    /\ tabla = <<>>
    /\ attempts = 0
    /\ bcalls = {}
    /\ p0 = None
    /\ search_t = 0
    /\ found = None
    /\ seed = {}
    /\ run = 0
    /\ first_table = None
    /\ rt_timeout = 0
    /\ rt_ret = None
    /\ rt_first = None
    /\ csvfile = <<>>
    /\ loaded = None
    /\ verbose = TRUE
    /\ debug = TRUE
    /\ pending = <<>>
    /\ first_start = <<>>

\* config.reduction_function and main.reduction_function on the digest at the
\* first position, config.reduction_function at the second
CallReduce ==
    /\ pc = "reduce"
    /\ pc' = "reduced"
    /\ red_out' = [config |-> reduction_function(red_hash, red_pos),
                   main |-> main_reduction_function(red_hash, red_pos),
                   config2 |-> reduction_function(red_hash, red_pos2)]
    /\ UNCHANGED <<sha, buildVars, chainVars, searchVars, keyVars, seedVars, rtVars,
                   fileVars, verbose, debug, red_hash, red_pos, red_pos2, workerVars>>

NextReduce == CallReduce

SpecReduce == InitReduce /\ [][NextReduce]_vars

\* ------------------- several construction workers inserting into one table
Workers == {"w1", "w2"}

\* the workers start on an empty shared table
WorkersStart(t, n) ==
    /\ pc = "start"
    /\ pc' = "workers"
    /\ chain_length' = t
    /\ num_entries' = n
    /\ tabla' = <<>>
    /\ pending' = [w \in Workers |-> {}]
    /\ first_start' = <<>>
    /\ UNCHANGED <<sha, attempts, bcalls, chainVars, searchVars, keyVars, seedVars,
                   rtVars, fileVars, verbose, debug, redVars>>

\* worker w sees the table short of n entries and generates the chain of Pi_:
\* "initial_psw, final_hash = build_chain(Pi, chain_length)", in its own memory
WorkerChain(w, Pi_) ==
    /\ pc = "workers"
    /\ pending[w] = {}
    /\ Cardinality(DOMAIN tabla) < num_entries
    /\ pending' = [pending EXCEPT ![w] = {build_chain(Pi_, chain_length)}]
    /\ UNCHANGED <<sha, pc, buildVars, chainVars, searchVars, keyVars, seedVars,
                   rtVars, fileVars, verbose, debug, redVars, first_start>>

\* worker w runs "if final_hash not in tabla: tabla[final_hash] = initial_psw"
\* on the shared table as one atomic step
WorkerInsert(w) ==
    /\ pc = "workers"
    /\ \E chain \in pending[w] :
          /\ tabla' = InsertIfAbsent(tabla, chain.final_hash, chain.initial_psw)
          /\ first_start' =
                IF chain.final_hash \in DOMAIN first_start THEN first_start
                ELSE [e \in DOMAIN first_start \cup {chain.final_hash} |->
                        IF e = chain.final_hash THEN chain.initial_psw
                        ELSE first_start[e]]
    /\ pending' = [pending EXCEPT ![w] = {}]
    /\ UNCHANGED <<sha, pc, chain_length, num_entries, attempts, bcalls, chainVars,
                   searchVars, keyVars, seedVars, rtVars, fileVars, verbose, debug,
                   redVars>>

NextWorkers ==
    \/ \E t \in 1 .. MaxT, n \in 0 .. MaxN : WorkersStart(t, n)
    \/ \E w \in Workers, Pi_ \in Password : WorkerChain(w, Pi_)
    \/ \E w \in Workers : WorkerInsert(w)

SpecWorkers == Init /\ [][NextWorkers]_vars

\* =================================================================== claims
Len_(table) == Cardinality(DOMAIN table)

\* The digests of the passwords at positions 0..t-1 of the chains stored in table
ChainDigests(table, t) ==
    { hash_function(ChainPw(table[e], k)) : e \in DOMAIN table, k \in 0 .. (t - 1) }

Searched == pc = "searched"

\* C1: search completeness. After search_collision(p0, tabla, t) on a table built
\* with the same t, a target that is the hash of a password at some position
\* 0..t-1 of a stored chain yields a password whose hash is the target.
C1_SearchCompleteness ==
    (Searched /\ search_t = chain_length /\ p0 \in ChainDigests(tabla, chain_length))
        => (found.result # None /\ hash_function(found.result) = p0)

\* the target is the hash of the middle password of a stored chain of length >= 3,
\* it is no endpoint of the table, and the search returned a preimage
C1_Witness ==
    /\ Searched /\ search_t = chain_length /\ chain_length >= 3
    /\ p0 \notin DOMAIN tabla
    /\ \E e \in DOMAIN tabla : p0 = hash_function(ChainPw(tabla[e], 1))
    /\ found.result # None /\ hash_function(found.result) = p0

\* C2: search soundness. Whatever the target, the table and the chain length given
\* to search_collision, a returned password hashes to the target.
C2_SearchSoundness ==
    (Searched /\ found.result # None) => hash_function(found.result) = p0

\* a search that met a false alarm and still returned a password, with a chain
\* length other than the one the table was built with
C2_Witness ==
    /\ Searched /\ found.result # None /\ found.alarms # {}
    /\ search_t # chain_length

\* C3: first writer wins. No step of the construction removes an entry of the
\* table or binds its endpoint to another start password.
C3_FirstWriterWins ==
    [][\A e \in DOMAIN tabla : e \in DOMAIN tabla' /\ tabla'[e] = tabla[e]]_vars

\* an attempt was discarded: more attempts than entries, and some password other
\* than the stored starts has a chain ending in a stored endpoint
C3_Witness ==
    /\ pc = "building" /\ attempts > Len_(tabla) /\ Len_(tabla) >= 1
    /\ \E p \in Password :
          /\ build_chain(p, chain_length).final_hash \in DOMAIN tabla
          /\ tabla[build_chain(p, chain_length).final_hash] # p

\* C4: bounded construction. The attempts never exceed 10 * n, the table never
\* holds more than n entries, the construction returns, and on return the table
\* holds n entries or 10 * n attempts were made.
C4_Bounds ==
    /\ attempts <= AttemptFactor * num_entries
    /\ Len_(tabla) <= num_entries
    /\ pc = "returned" => (Len_(tabla) = num_entries \/ attempts = AttemptFactor * num_entries)

C4_BoundedConstruction ==
    /\ []C4_Bounds
    /\ (pc = "building") ~> (pc \in {"returned", "raised"})

\* the budget ran out: a partial table is returned
C4_Witness ==
    /\ pc = "returned" /\ num_entries > 0
    /\ Len_(tabla) < num_entries
    /\ attempts = AttemptFactor * num_entries

\* C5: chain replay equivalence. build_chain(p0, t) returns p0 as start and as
\* endpoint the hash of the password reached by P = reduce(hash(P), j) for
\* j = 0 .. t-2.
C5_ChainReplay ==
    pc = "chain_done" =>
        /\ chain_out.initial_psw = chain_start
        /\ chain_out.final_hash = hash_function(ChainPw(chain_start, chain_t - 1))

\* a chain of at least three passwords whose endpoint differs from the hash of
\* its start
C5_Witness ==
    /\ pc = "chain_done" /\ chain_t >= 3
    /\ chain_out.final_hash # hash_function(chain_start)

\* C6: index convention. Every reduction made by build_chain and by both phases of
\* search_collision for the link leaving chain position j is made with position
\* j, and the position is in 0 .. t-2.
C6_IndexConvention ==
    /\ \A c \in bcalls : c[2] = c[1] /\ c[2] \in 0 .. (chain_length - 2)
    /\ Searched => \A c \in found.calls : c[3] = c[2] /\ c[3] \in 0 .. (search_t - 2)

\* construction and both phases of a search made the reduction of the last link
C6_Witness ==
    /\ Searched /\ search_t = chain_length /\ chain_length >= 3
    /\ <<chain_length - 2, chain_length - 2>> \in bcalls
    /\ <<"project", search_t - 2, search_t - 2>> \in found.calls
    /\ <<"replay", search_t - 2, search_t - 2>> \in found.calls
    /\ <<"project", 0, 0>> \in found.calls

\* C9: NotFound correctness. A target that is the hash of no password at
\* positions 0..t-1 of a stored chain yields None.
C9_NotFound ==
    (Searched /\ p0 \notin ChainDigests(tabla, search_t)) => found.result = None

\* the target has a preimage, none on a stored chain; the search met a false
\* alarm and returned None
C9_Witness ==
    /\ Searched /\ p0 \notin ChainDigests(tabla, search_t)
    /\ \E p \in Password : hash_function(p) = p0
    /\ found.alarms # {}
    /\ found.result = None

\* Position k is a genuine hit: the projection from k ends in a stored endpoint
\* and the replay of that chain meets the target.
GenuineHit(k) ==
    LET proj == project(p0, k, k, search_t, {})
    IN  /\ proj.p \in DOMAIN tabla
        /\ replay(tabla[proj.p], 0, 0, p0, search_t, {}).result # None

\* C10: a false alarm does not end the search. After a false alarm at position i
\* the next position is tried, a search that returns None has tried every
\* position, and a genuine hit at a later position is returned.
C10_FalseAlarmContinues ==
    Searched =>
        /\ found.result = None => found.tried = 0 .. (search_t - 1)
        /\ \A i \in found.alarms :
              /\ i + 1 < search_t => i + 1 \in found.tried
              /\ (\E k \in (i + 1) .. (search_t - 1) : GenuineHit(k))
                    => (found.result # None /\ hash_function(found.result) = p0)

\* a false alarm at one position, the password found at a later one
C10_Witness ==
    /\ Searched /\ found.result # None
    /\ \E i \in found.alarms : \E k \in found.tried : k > i /\ GenuineHit(k)
\* The password after k construction steps of build_table from start_pw: step m
\* is P = R(m, hash_trunc40(P)), m = 1 .. k.
RECURSIVE ChatiChainPw(_, _)
ChatiChainPw(start_pw, k) ==
    IF k = 0 THEN start_pw
    ELSE R(k, hash_trunc40(ChatiChainPw(start_pw, k - 1)))

ChatiChainDigests(table, t) ==
    { hash_trunc40(ChatiChainPw(table[e], k)) : e \in DOMAIN table, k \in 0 .. (t - 1) }

Looked == pc = "looked"

\* C7: search completeness of the code_chati pair. After lookup(p0, table, t) on a
\* table built by build_table with the same t, a target that is the hash of a
\* password at some position 0..t-1 of a stored chain yields a password whose
\* hash is the target.
C7_LookupCompleteness ==
    (Looked /\ search_t = chain_length /\ p0 \in ChatiChainDigests(tabla, chain_length))
        => (found.result # None /\ hash_trunc40(found.result) = p0)

\* C8: position convention of the code_chati pair. build_table and both phases of
\* lookup call R for the link leaving chain position m with index m + 1, and only
\* with the indices 1 .. t-1 that build_table uses.
C8_LookupIndexConvention ==
    /\ pc \in {"building", "table", "looked"} =>
          \A c \in bcalls : c[2] = c[1] + 1 /\ c[2] \in 1 .. (chain_length - 1)
    /\ Looked => \A c \in found.calls : c[3] = c[2] + 1 /\ c[3] \in 1 .. (search_t - 1)
InRange(idx) == idx \in 0 .. (SPACE_SIZE - 1)

\* C11: index/password bijection. pw_to_index(index_to_pw(idx)) = idx for every
\* idx in [0, SPACE_SIZE), and index_to_pw(pw_to_index(p)) = p for every password.
C11_Bijection ==
    pc = "key_done" =>
        /\ InRange(key_idx) => (key_out.pw \in Password /\ key_out.back_idx = key_idx)
        /\ InRange(key_out.idx) /\ key_out.back_pw = key_pw

\* an index and a password whose letters differ, so that the order of the letters
\* matters
C11_Witness ==
    /\ pc = "key_done" /\ InRange(key_idx)
    /\ key_out.pw[1] # key_out.pw[PSW_LEN]
    /\ key_pw[1] # key_pw[PSW_LEN]
    /\ key_out.back_idx = key_idx /\ key_out.back_pw = key_pw

\* C12: index_to_pw returns no password for an index outside [0, SPACE_SIZE).
C12_InvalidIndex ==
    pc = "key_done" => InRange(key_idx)
\* C13: chain length one. build_chain(start, 1) makes no reduction and ends in
\* hash_function(start), so does every chain of a table built with t = 1;
\* search_collision(target, table, 1) makes no reduction, tries position 0 only,
\* returns nothing but the start stored under the target, None when the target
\* is no key, and on a table of chain length 1 the stored start for every key.
C13_ChainLengthOne ==
    /\ \A p \in Password :
          build_chain(p, 1) = [initial_psw |-> p, final_hash |-> hash_function(p),
                               calls |-> {}]
    /\ chain_length = 1 =>
          /\ bcalls = {}
          /\ \A e \in DOMAIN tabla : e = hash_function(tabla[e])
    /\ (Searched /\ search_t = 1) =>
          /\ found.calls = {}
          /\ found.tried = {0}
          /\ found.result # None => (p0 \in DOMAIN tabla /\ found.result = tabla[p0])
          /\ p0 \notin DOMAIN tabla => found.result = None
          /\ (chain_length = 1 /\ p0 \in DOMAIN tabla) => found.result = tabla[p0]

\* a table of two chains of length one, searched with t = 1 for one of its keys
C13_Witness ==
    /\ Searched /\ search_t = 1 /\ chain_length = 1
    /\ Len_(tabla) = 2
    /\ p0 \in DOMAIN tabla
    /\ found.result = tabla[p0]
    /\ found.calls = {} /\ bcalls = {}
\* C14: searching an empty table returns None before any projection or replay
\* step: no hash and no reduction is computed.
C14_EmptyTableImmediate ==
    (Searched /\ tabla = <<>>) => (found.result = None /\ found.calls = {})
\* C15: a seeded construction is reproducible. The second run of
\* build_table(n, t, seed) with the same n, t and non-None seed returns the table
\* the first run returned.
C15_SeededReproducible ==
    (pc = "table" /\ run = 2 /\ seed # {}) => tabla = first_table
\* What a caller sees of the tuple without its numbers: how many components it
\* has and whether the first is None or a password
Form(value) ==
    [length |-> Len(value), first |-> IF value[1] = None THEN "None" ELSE "password"]

\* C16: the tuple RainbowTable.search_collision returns when the timeout was
\* exceeded differs in form from the tuple it returns when every position was
\* tried without a match.
C16_TimedOutDistinct ==
    (pc = "rt_done2" /\ rt_first.outcome = "timed_out" /\ rt_ret.outcome = "exhausted")
        => Form(rt_first.value) # Form(rt_ret.value)
\* C17: persistence round trip. load_rainbow_table on the file written by
\* save_rainbow_table(tabla, t, n) returns a table equal to tabla and the chain
\* length t, and search_collision gives on them the result it gives on the
\* original, for every target.
C17_RoundTrip ==
    pc = "loaded" =>
        /\ loaded.tabla = tabla
        /\ loaded.chain_length = chain_length
        /\ \A target \in Digest :
              search_collision(target, loaded.tabla, loaded.chain_length)
                  = search_collision(target, tabla, chain_length)

\* a table of two chains of length >= 2 saved and loaded, one endpoint with two
\* different hexadecimal digits
C17_Witness ==
    /\ pc = "loaded"
    /\ Len_(tabla) = 2 /\ chain_length >= 2
    /\ \E e \in DOMAIN tabla : hex(e)[1] # hex(e)[2]
    /\ loaded.tabla = tabla /\ loaded.chain_length = chain_length
\* C18: search is read-only on the table. No step of a caller that holds a table
\* and runs search_collision on it, once or many times, changes the table,
\* whether the search returns a password or None.
C18_SearchReadOnly ==
    [][(pc \in {"table", "searched"}) => (tabla' = tabla)]_vars

\* a search that met a false alarm, read two entries and returned a password,
\* on the table the construction returned
C18_Witness ==
    /\ Searched /\ Len_(tabla) = 2
    /\ found.alarms # {} /\ found.result # None
    /\ found.table = tabla
    /\ \A e \in DOMAIN tabla : e = build_chain(tabla[e], chain_length).final_hash
\* C19: construction outcomes are ordinary return values. No call of
\* build_rainbow_table(chain_length, num_entries), verbose or not, ends in an
\* exception.
C19_NeverRaises ==
    pc # "raised"
\* C20: every entry is a real chain. In every state of build_rainbow_table(t, n),
\* a partial table returned when the budget ran out included, the key of each
\* entry is the endpoint build_chain computes from the stored start: the hash of
\* the password t - 1 (hash, reduce) steps after it.
C20_EntriesAreChains ==
    \A e \in DOMAIN tabla :
        /\ e = build_chain(tabla[e], chain_length).final_hash
        /\ e = hash_function(ChainPw(tabla[e], chain_length - 1))

\* a partial table of chains of length >= 2, returned when the budget ran out
C20_Witness ==
    /\ pc = "returned" /\ chain_length >= 2
    /\ Len_(tabla) >= 1 /\ Len_(tabla) < num_entries
    /\ \A e \in DOMAIN tabla : e = build_chain(tabla[e], chain_length).final_hash
    /\ \E e \in DOMAIN tabla : e # hash_function(tabla[e])
\* C21: main.py build_rainbow_table is first write wins. Each endpoint of the
\* table has one start password: a chain whose endpoint is already a key is
\* discarded, not stored next to the first.
C21_MainFirstWriteWins ==
    \A e \in DOMAIN tabla : Len(tabla[e]) = 1

\* C22: main.py find_collision compares the hash of every password of the
\* replayed chain, the last included: after the search for the endpoint digest
\* of a stored chain a preimage of it is returned.
C22_MainEndpointRecovered ==
    (pc = "main_done" /\ p0 \in DOMAIN tabla)
        => (found.result # None /\ hash_function(found.result) = p0)
\* C23: in mainclaude.py a false alarm does not end the search. A call of
\* RainbowTable.search_collision that returns None without a timeout has tried
\* every candidate position 0 .. chain_length - 1.
C23_RTFalseAlarmContinues ==
    (pc \in {"rt_done", "rt_done2"} /\ rt_ret.value[1] = None
        /\ rt_ret.outcome # "timed_out")
        => rt_ret.tried = 0 .. (chain_length - 1)
\* The digests of the passwords at positions 0 .. chain_length - 1 of the chains
\* stored in the table of mainclaudedebug.py
RTDChainDigests ==
    { RTD_hash_function(RTD_chain(tabla[e], 0, k)) :
        e \in DOMAIN tabla, k \in 0 .. (chain_length - 1) }

\* C24: search completeness of mainclaudedebug.py. For a target that is the hash
\* of the password k steps after a stored start, k in 0 .. chain_length - 1, a
\* search_collision that does not time out returns a password whose hash is the
\* target.
C24_RTDCompleteness ==
    (pc = "rtd_done" /\ rt_ret.outcome # "timed_out" /\ p0 \in RTDChainDigests)
        => (rt_ret.result # None /\ RTD_hash_function(rt_ret.result) = p0)

\* the target is the hash of the middle password of a stored chain of length 3
\* and no endpoint; the search returned a preimage at a position after 0
C24_Witness ==
    /\ pc = "rtd_done" /\ chain_length >= 3
    /\ p0 \notin DOMAIN tabla
    /\ \E e \in DOMAIN tabla : p0 = RTD_hash_function(RTD_chain(tabla[e], 0, 1))
    /\ rt_ret.outcome = "found" /\ RTD_hash_function(rt_ret.result) = p0

\* C28: cooperative cancellation. The deadline is tested at the start of every
\* outer iteration before the work for that position: a search goes on to the
\* work of a position only after a test that found the deadline not passed, and
\* once a test finds it passed that position and the later ones are not
\* processed and the search returns None.
C28_DeadlineAtEveryPosition ==
    pc = "rtd_done" =>
        /\ rt_ret.worked \subseteq rt_ret.tested
        /\ rt_ret.outcome = "timed_out" =>
              /\ rt_ret.last > rt_timeout
              /\ rt_ret.result = None
              /\ \E k \in 0 .. (chain_length - 1) :
                    rt_ret.tested = 0 .. k /\ rt_ret.worked = 0 .. (k - 1)
        /\ rt_ret.outcome # "timed_out" =>
              /\ rt_ret.last <= rt_timeout
              /\ rt_ret.tested = rt_ret.worked

\* the deadline passed during the work of position 0: the test at position 1
\* ended a search of a table of chains of length 3, position 2 untouched
C28_Witness ==
    /\ pc = "rtd_done" /\ chain_length = 3 /\ Len_(tabla) >= 1
    /\ rt_ret.outcome = "timed_out"
    /\ rt_ret.tested = {0, 1} /\ rt_ret.worked = {0}
\* C25: the order of the candidate positions does not change the outcome. For
\* every target, table and t, search_collision trying i = 0 .. t-1 returns a
\* password exactly when the same search trying i = t-1 .. 0 returns one, and
\* the password returned in either order hashes to the target.
C25_OrderIndependent ==
    Searched =>
        LET down == search_trace_down(p0, tabla, search_t)
        IN  /\ (found.result # None) <=> (down.result # None)
            /\ found.result # None => hash_function(found.result) = p0
            /\ down.result # None => hash_function(down.result) = p0

\* a table searched with its own chain length: the two orders return different
\* passwords, both preimages of the target
C25_Witness ==
    /\ Searched /\ search_t = chain_length /\ found.result # None
    /\ LET down == search_trace_down(p0, tabla, search_t)
       IN  /\ down.result # None /\ down.result # found.result
           /\ hash_function(down.result) = p0 /\ hash_function(found.result) = p0
\* C26: the reduction maps into the key space. For every digest and every
\* position >= 0 the bit-chunk reduction of config.py / const_tabla.py and the
\* modulo reduction of main.py return PSW_LEN characters of ALPHABET.
C26_ReductionInKeySpace ==
    pc = "reduced" =>
        /\ Len(red_out.config) = PSW_LEN
        /\ \A k \in 1 .. Len(red_out.config) : red_out.config[k] \in Letter
        /\ Len(red_out.main) = PSW_LEN
        /\ \A k \in 1 .. Len(red_out.main) : red_out.main[k] \in Letter

\* the digest plus the position passes the digest width and wraps, and a chunk
\* holds a value above the alphabet size
C26_Witness ==
    /\ pc = "reduced"
    /\ red_hash + red_pos >= HashMod
    /\ \E i \in 0 .. (PSW_LEN - 1) : Chunk(red_hash, i) >= ALPHABET_SIZE
    /\ red_out.config \in Password /\ red_out.main \in Password

\* C27: the reduction varies with the position. For every digest and two
\* different positions config.reduction_function returns different passwords.
C27_ReductionVaries ==
    (pc = "reduced" /\ red_pos # red_pos2) => red_out.config # red_out.config2
\* C29: construction stops once an attempt budget is used up. Every call of
\* build_table(n, t) of code_chati returns, also when fewer than n distinct
\* endpoints can be produced.
C29_BuildTerminates ==
    (pc = "building") ~> (pc = "table")
\* C30: concurrent construction keeps first writer wins. With several workers
\* that generate chains on their own and run the membership test and the insert
\* of build_rainbow_table as one atomic step, in every interleaving the table
\* holds for each endpoint the start written by the first insert of that
\* endpoint, and no step replaces or removes an entry.
C30_ConcurrentFirstWriterWins ==
    [][pc = "workers" =>
          /\ DOMAIN first_start' = DOMAIN tabla'
          /\ \A e \in DOMAIN tabla' : tabla'[e] = first_start'[e]
          /\ \A e \in DOMAIN tabla : e \in DOMAIN tabla' /\ tabla'[e] = tabla[e]]_vars

\* a worker holds a chain whose endpoint another worker's chain, from another
\* start, has already put into the table, while the other worker holds its next
\* chain
C30_Witness ==
    /\ pc = "workers"
    /\ \E w \in Workers : \E chain \in pending[w] :
          /\ chain.final_hash \in DOMAIN tabla
          /\ tabla[chain.final_hash] # chain.initial_psw
          /\ first_start[chain.final_hash] = tabla[chain.final_hash]
          /\ \E v \in Workers \ {w} : pending[v] # {}
====
